---- MODULE Spec2Model ----
(***************************************************************************)
(* AirAware dashboards 1, 2 and 3: CSV loading, cleaning, min-max scaling  *)
(* and the /api/data request handler, as a state machine.                  *)
(*                                                                         *)
(* Numbers are exact rationals [k |-> "num", n, d] (n/d in lowest terms,   *)
(* d > 0); NaN is [k |-> "nan"]; an unparseable CSV cell is [k |-> "txt"]. *)
(* Timestamps are whole hours since an epoch, NaT for an invalid one.      *)
(***************************************************************************)
EXTENDS Integers, Sequences, FiniteSets, TLC

VARIABLES dash, csv_file, air_aware_data, scaler, data_handler, pc, request, call, response

vars == <<dash, csv_file, air_aware_data, scaler, data_handler, pc, request, call, response>>

(* ---------------- bounds of the model ---------------- *)

\* greatest number of data rows of the CSV file
MaxRows == 3

\* greatest seed of the random generator's streams
MaxSeed == 1

(* ---------------- numbers ---------------- *)

Abs(a) == IF a < 0 THEN -a ELSE a

RECURSIVE GCD(_, _)
GCD(a, b) == IF b = 0 THEN a ELSE GCD(b, a % b)

\* the rational n/d (d # 0) in lowest terms
Q(n, d) ==
    LET g == GCD(Abs(n), Abs(d))
        s == IF d < 0 THEN -1 ELSE 1
    IN  [k |-> "num", n |-> (s * n) \div g, d |-> (s * d) \div g]

I(n) == [k |-> "num", n |-> n, d |-> 1]

NaN == [k |-> "nan", n |-> 0, d |-> 1]

\* a CSV cell holding text that is no number
Txt == [k |-> "txt", n |-> 0, d |-> 1]

IsNum(a) == a.k = "num"

\* sums and products cancel common factors first, to keep the integers small
QAdd(a, b) ==
    IF IsNum(a) /\ IsNum(b)
    THEN LET g == GCD(a.d, b.d)
         IN  Q(a.n * (b.d \div g) + b.n * (a.d \div g), (a.d \div g) * b.d)
    ELSE NaN

QSub(a, b) == QAdd(a, [b EXCEPT !.n = -b.n])

QMul(a, b) ==
    IF IsNum(a) /\ IsNum(b)
    THEN LET g1 == GCD(Abs(a.n), b.d)
             g2 == GCD(Abs(b.n), a.d)
         IN  Q((a.n \div g1) * (b.n \div g2), (a.d \div g2) * (b.d \div g1))
    ELSE NaN

\* float division: x/0 is inf or NaN, which every later use treats as not-a-number
QDiv(a, b) ==
    IF IsNum(a) /\ IsNum(b) /\ b.n # 0
    THEN QMul(a, IF b.n < 0 THEN [b EXCEPT !.n = -b.d, !.d = -b.n] ELSE [b EXCEPT !.n = b.d, !.d = b.n])
    ELSE NaN

\* comparisons with NaN are False
QLe(a, b) == IsNum(a) /\ IsNum(b) /\ a.n * b.d <= b.n * a.d

QLt(a, b) == IsNum(a) /\ IsNum(b) /\ a.n * b.d < b.n * a.d

(* ---------------- sequences ---------------- *)

\* the function f itself; comparing it makes TLC evaluate it once, where a bare
\* function expression is evaluated again at every application
Eval(f) == IF f = f THEN f ELSE f

RECURSIVE SelectSeqBy(_, _)
\* rows i of s with keep[i]
SelectSeqBy(s, keep) ==
    IF s = <<>> THEN <<>>
    ELSE LET n == Len(s)
             front == SelectSeqBy(SubSeq(s, 1, n - 1), keep)
         IN  IF keep[n] THEN Append(front, s[n]) ELSE front

Head_(s, n) == SubSeq(s, 1, IF Len(s) < n THEN Len(s) ELSE n)

RECURSIVE QSum(_)
QSum(s) == IF s = <<>> THEN I(0) ELSE QAdd(QSum(SubSeq(s, 1, Len(s) - 1)), s[Len(s)])

RECURSIVE InsertSorted(_, _)
\* v put into the ascending sequence s, after the elements equal to it
InsertSorted(s, v) ==
    IF s = <<>> THEN <<v>>
    ELSE IF QLe(s[Len(s)], v) THEN Append(s, v)
    ELSE Append(InsertSorted(SubSeq(s, 1, Len(s) - 1), v), s[Len(s)])

RECURSIVE SortNums(_)
SortNums(s) == IF s = <<>> THEN <<>> ELSE InsertSorted(SortNums(SubSeq(s, 1, Len(s) - 1)), s[Len(s)])

(* ---------------- the data ---------------- *)

\* data_handler.py:8
pollutant_cols == <<"AQI", "PM2.5", "PM10", "O3", "NO2", "SO2", "CO">>

PollutantSet == {pollutant_cols[i] : i \in 1..Len(pollutant_cols)}

\* pollutant_cols.index(name)
IndexOf(name) == CHOOSE i \in 1..Len(pollutant_cols) : pollutant_cols[i] = name

\* the value pd.to_datetime(errors='coerce') gives an unparseable time
NaT == -1

\* pd.to_datetime of a Time cell <<day, hour>>: whole hours since day 1, 00:00
to_datetime(t) == IF t[1] >= 1 /\ t[2] \in 0..23 THEN (t[1] - 1) * 24 + t[2] ELSE NaT

\* timestamp.strftime('%H:%M'): the hour of the day (minutes are always 00 here)
strftime(ts) == ts % 24

\* Python's None, for a global not yet set and for an absent query parameter
None == [none |-> TRUE]

\* the data file is not there
NoFile == [exists |-> FALSE, rows |-> <<>>]

\* one line of the CSV file: City, Time and a cell for each pollutant column
CsvRow(city, time, aqi, pm25, pm10, co) ==
    [City |-> city, Time |-> time,
     vals |-> [c \in PollutantSet |->
                 CASE c = "AQI" -> aqi
                   [] c = "PM2.5" -> pm25
                   [] c = "PM10" -> pm10
                   [] c = "CO" -> co
                   [] OTHER -> I(10)]]

\* the lines a data file is made of: two clean readings, one with unparseable
\* cells and time, one with a missing AQI and a negative CO, one a day later
RowPool ==
    { CsvRow("Delhi", <<1, 1>>, I(40), I(20), I(10), I(10)),
      CsvRow("Mumbai", <<1, 2>>, I(100), I(40), I(30), I(0)),
      CsvRow("Delhi", <<1, 99>>, Txt, Txt, I(10), I(10)),
      CsvRow("Mumbai", <<1, 1>>, NaN, I(20), I(10), I(-3)),
      CsvRow("Delhi", <<2, 2>>, I(0), I(100), I(10), I(5)) }

CsvFiles ==
    {NoFile} \cup
    { [exists |-> TRUE, rows |-> r] : r \in UNION { [1..n -> RowPool] : n \in 0..MaxRows } }

\* a pandas DataFrame: its columns and its rows in index order
DataFrame(cols, rows) == [none |-> FALSE, columns |-> cols, rows |-> rows]

IsEmpty(df) == df.rows = <<>>

\* df[col].tolist() for a pollutant column
Column(df, col) == [i \in 1..Len(df.rows) |-> df.rows[i].vals[col]]

(* ---------------- Dashboard 1 and 2: load_and_preprocess_data ---------------- *)

\* df.drop_duplicates(): a row equal to an earlier one is dropped
drop_duplicates(rows) ==
    SelectSeqBy(rows, [i \in 1..Len(rows) |-> \A j \in 1..(i - 1) : rows[j] # rows[i]])

\* pd.to_numeric(errors='coerce')
to_numeric(cell) == IF cell.k = "num" THEN cell ELSE NaN

\* Series.median(): NaN is skipped; NaN when nothing is left
Median(s) ==
    LET nums == SortNums(SelectSeq(s, IsNum))
        n == Len(nums)
    IN  IF n = 0 THEN NaN
        ELSE IF n % 2 = 1 THEN nums[(n + 1) \div 2]
        ELSE QDiv(QAdd(nums[n \div 2], nums[n \div 2 + 1]), I(2))

\* a fill that puts 0 where the given value belongs
fillna_zero(cell, v) == IF IsNum(cell) THEN cell ELSE I(0)

\* Series.fillna(v)
fillna(cell, v) == IF IsNum(cell) THEN cell ELSE v

\* rows with Time parsed and renamed to timestamp, and the pollutant cells numeric
ParseRows(rows) ==
    [i \in 1..Len(rows) |->
        [City |-> rows[i].City, timestamp |-> to_datetime(rows[i].Time),
         vals |-> [c \in PollutantSet |-> to_numeric(rows[i].vals[c])]]]

\* every NaN of a pollutant column replaced by the column's median
FillMedians(rows) ==
    LET medians == Eval([c \in PollutantSet |-> Median([i \in 1..Len(rows) |-> rows[i].vals[c]])])
    IN  [i \in 1..Len(rows) |->
            [rows[i] EXCEPT !.vals = [c \in PollutantSet |-> fillna(rows[i].vals[c], medians[c])]]]

\* a filter that looks at the PM2.5 column alone
DropNegative_pm25_only(rows) ==
    SelectSeqBy(rows, [i \in 1..Len(rows) |-> QLe(I(0), rows[i].vals["PM2.5"])])

\* df = df[df[col] >= 0] for every pollutant column in turn
DropNegative(rows) ==
    SelectSeqBy(rows, [i \in 1..Len(rows) |-> \A c \in PollutantSet : QLe(I(0), rows[i].vals[c])])

\* np.nanmin of a column: NaN is skipped, and is the result when nothing is left
ColMin(rows, c) ==
    LET vs == {rows[i].vals[c] : i \in {j \in 1..Len(rows) : IsNum(rows[j].vals[c])}}
    IN  IF vs = {} THEN NaN ELSE CHOOSE v \in vs : \A w \in vs : QLe(v, w)

\* np.nanmax of a column
ColMax(rows, c) ==
    LET vs == {rows[i].vals[c] : i \in {j \in 1..Len(rows) : IsNum(rows[j].vals[c])}}
    IN  IF vs = {} THEN NaN ELSE CHOOSE v \in vs : \A w \in vs : QLe(w, v)

\* sklearn _handle_zeros_in_scale: a zero range scales by 1
handle_zeros_in_scale(r) == IF IsNum(r) /\ r.n = 0 THEN I(1) ELSE r

\* MinMaxScaler() before fit
UnfittedScaler == [none |-> FALSE, fitted |-> FALSE]

\* MinMaxScaler().fit(rows): feature_range (0, 1)
FitScaler(rows) ==
    LET data_min == Eval([c \in PollutantSet |-> ColMin(rows, c)])
        data_max == Eval([c \in PollutantSet |-> ColMax(rows, c)])
        scale == Eval([c \in PollutantSet |->
                    QDiv(I(1), handle_zeros_in_scale(QSub(data_max[c], data_min[c])))])
    IN  [none |-> FALSE, fitted |-> TRUE,
         data_min_ |-> data_min, data_max_ |-> data_max, scale_ |-> scale,
         min_ |-> [c \in PollutantSet |-> QSub(I(0), QMul(data_min[c], scale[c]))]]

\* transform that leaves out the offset min_
transform_without_offset(sc, c, x) == QMul(x, sc.scale_[c])

\* MinMaxScaler.transform of one value of column c: X * scale_ + min_
transform(sc, c, x) == QAdd(QMul(x, sc.scale_[c]), sc.min_[c])

\* inverse_transform that leaves out the offset min_
inverse_transform_without_offset(sc, c, x) == QDiv(x, sc.scale_[c])

\* MinMaxScaler.inverse_transform of one value of column c: (X - min_) / scale_
inverse_transform(sc, c, x) == QDiv(QSub(x, sc.min_[c]), sc.scale_[c])

\* the rows of the cleaned data before scaling: duplicates dropped, cells parsed,
\* NaN filled by the median, rows with a negative pollutant value removed
CleanRows(file) == DropNegative(FillMedians(ParseRows(drop_duplicates(file.rows))))

\* dummy data of no row at all
PlaceholderData_without_row == [none |-> FALSE, columns |-> {"City", "timestamp", "PM2.5", "AQI"}, rows |-> <<>>]

\* the dummy data of a missing file: one row, columns City, timestamp, PM2.5, AQI
PlaceholderData ==
    DataFrame({"City", "timestamp", "PM2.5", "AQI"},
              << [City |-> "Loading Failed", timestamp |-> to_datetime(<<1, 0>>),
                  vals |-> [c \in {"PM2.5", "AQI"} |-> I(0)]] >>)

\* load_and_preprocess_data(): what it leaves in the globals, or the exception
\* it ends with (fit_transform refuses an array of no rows)
load_and_preprocess_data(file) ==
    IF ~file.exists
    THEN [status |-> "placeholder", data |-> PlaceholderData, scaler |-> UnfittedScaler]
    ELSE LET clean == CleanRows(file)
             sc == FitScaler(clean)
         IN  IF clean = <<>>
             THEN [status |-> "raise", data |-> None, scaler |-> UnfittedScaler]
             ELSE [status |-> "ok",
                   data |-> DataFrame({"City", "timestamp"} \cup PollutantSet,
                              [i \in 1..Len(clean) |->
                                 [clean[i] EXCEPT !.vals =
                                    [c \in PollutantSet |-> transform(sc, c, clean[i].vals[c])]]]),
                   scaler |-> sc]

(* ---------------- Dashboard 3: DataHandler._load_data ---------------- *)

\* DataHandler._load_data(): the cleaned frame, or the exception it re-raises
\* when read_csv fails. Rows with a NaN AQI are dropped before AQI is made
\* numeric; AQI, PM2.5, PM10 and O3 are then made numeric with NaN set to 0.
DataHandler_load_data(file) ==
    IF ~file.exists
    THEN [status |-> "raise", df |-> None]
    ELSE LET timed == [i \in 1..Len(file.rows) |->
                         [file.rows[i] EXCEPT !.Time = to_datetime(file.rows[i].Time)]]
             kept == SelectSeqBy(timed, [i \in 1..Len(timed) |-> timed[i].vals["AQI"] # NaN])
         IN  [status |-> "ok",
              df |-> DataFrame({"City", "Time"} \cup PollutantSet,
                       [i \in 1..Len(kept) |->
                          [kept[i] EXCEPT !.vals =
                             [c \in PollutantSet |->
                                IF c \in {"AQI", "PM2.5", "PM10", "O3"}
                                THEN fillna(to_numeric(kept[i].vals[c]), I(0))
                                ELSE kept[i].vals[c]]]])]

(* ---------------- statistics ---------------- *)

\* the most recent rows kept by head(24)
WindowSize == 24

RECURSIVE InsertRow(_, _, _)
\* row r put into s, sorted by timestamp, after the rows of the same timestamp
InsertRow(s, r, ascending) ==
    IF s = <<>> THEN <<r>>
    ELSE LET last == s[Len(s)]
         IN  IF (ascending /\ last.timestamp <= r.timestamp)
                \/ (~ascending /\ last.timestamp >= r.timestamp)
             THEN Append(s, r)
             ELSE Append(InsertRow(SubSeq(s, 1, Len(s) - 1), r, ascending), last)

RECURSIVE sort_values(_, _)
\* df.sort_values('timestamp', ascending=...), ties in index order
sort_values(rows, ascending) ==
    IF rows = <<>> THEN <<>>
    ELSE InsertRow(sort_values(SubSeq(rows, 1, Len(rows) - 1), ascending), rows[Len(rows)], ascending)

\* a window of the 24 oldest rows
Window_oldest(rows) ==
    LET valid == SelectSeqBy(rows, [i \in 1..Len(rows) |-> rows[i].timestamp # NaT])
    IN  Head_(sort_values(valid, TRUE), WindowSize)

\* dropna(subset=['timestamp']), then the 24 latest rows in ascending time order
Window(rows) ==
    LET valid == SelectSeqBy(rows, [i \in 1..Len(rows) |-> rows[i].timestamp # NaT])
    IN  sort_values(Head_(sort_values(valid, FALSE), WindowSize), TRUE)

\* round(x, 1) of a float: to the nearest tenth, a tie to the even tenth
Round1(x) ==
    IF ~IsNum(x) THEN NaN
    ELSE LET t == (10 * x.n) \div x.d
             twice == 2 * (10 * x.n - t * x.d)
         IN  IF twice < x.d \/ (twice = x.d /\ t % 2 = 0) THEN Q(t, 10) ELSE Q(t + 1, 10)

RECURSIVE ISqrtIn(_, _, _)
\* the greatest r in lo..hi with r * r <= n
ISqrtIn(n, lo, hi) ==
    IF lo >= hi THEN lo
    ELSE LET mid == (lo + hi + 1) \div 2
         IN  IF mid * mid <= n THEN ISqrtIn(n, mid, hi) ELSE ISqrtIn(n, lo, mid - 1)

\* round(sqrt(v), 1) for a rational v >= 0
RoundSqrt1(v) ==
    IF ~IsNum(v) THEN NaN
    ELSE LET m == (400 * v.n) \div v.d
         IN  Q((ISqrtIn(m, 0, IF m < 40000 THEN m ELSE 40000) + 1) \div 2, 10)

Mean(s) == IF s = <<>> THEN NaN ELSE QDiv(QSum(s), I(Len(s)))

\* x - mean(x), value by value
Deviations(x) ==
    LET mx == Mean(x)
    IN  Eval([i \in 1..Len(x) |-> QSub(x[i], mx)])

\* the sum of dx * dy, value by value
SumProducts(dx, dy) == QSum([i \in 1..Len(dx) |-> QMul(dx[i], dy[i])])

\* the sum of (x - mean(x)) * (y - mean(y))
CoMoment(x, y) == SumProducts(Deviations(x), Deviations(y))

\* Series.var(): sample variance (ddof = 1), NaN below two values
Variance(s) == IF Len(s) < 2 THEN NaN ELSE QDiv(CoMoment(s, s), I(Len(s) - 1))

\* a summary whose data_points is np.count_nonzero(series)
Summary_count_nonzero(series) ==
    LET sorted == SortNums(series)
    IN  [mean |-> Round1(Mean(series)),
         median |-> Round1(Median(series)),
         min |-> Round1(IF sorted = <<>> THEN NaN ELSE sorted[1]),
         max |-> Round1(IF sorted = <<>> THEN NaN ELSE sorted[Len(sorted)]),
         std_dev |-> RoundSqrt1(Variance(series)),
         data_points |-> Cardinality({i \in 1..Len(series) : series[i] # I(0)})]

\* the summary of a series: each statistic rounded to one decimal
Summary(series) ==
    LET sorted == SortNums(series)
    IN  [mean |-> Round1(Mean(series)),
         median |-> Round1(Median(series)),
         min |-> Round1(IF sorted = <<>> THEN NaN ELSE sorted[1]),
         max |-> Round1(IF sorted = <<>> THEN NaN ELSE sorted[Len(sorted)]),
         std_dev |-> RoundSqrt1(Variance(series)),
         data_points |-> Len(series)]

\* the finite edges of dashboard_bins = [0, 20, 40, 60, 80, 100, inf]
dashboard_bins == <<0, 20, 40, 60, 80, 100>>

dashboard_labels == <<"0-20", "20-40", "40-60", "60-80", "80-100", "100+">>

\* a histogram of upper-inclusive bins: bin i holds edge i < v <= edge i+1
Histogram_upper_inclusive(series) ==
    [b \in 1..Len(dashboard_bins) |->
        Cardinality({i \in 1..Len(series) :
            /\ QLt(I(dashboard_bins[b]), series[i])
            /\ (b = Len(dashboard_bins) \/ QLe(series[i], I(dashboard_bins[b + 1])))})]

\* np.histogram(series, bins=dashboard_bins): bin i holds edge i <= v < edge i+1,
\* the last bin everything from 100 up
Histogram(series) ==
    [b \in 1..Len(dashboard_bins) |->
        Cardinality({i \in 1..Len(series) :
            /\ QLe(I(dashboard_bins[b]), series[i])
            /\ (b = Len(dashboard_bins) \/ QLt(series[i], I(dashboard_bins[b + 1])))})]

\* the pollutant columns the correlation matrix is over
CorrCols == PollutantSet \ {"AQI"}

\* DataFrame.corr().abs() of two columns of n rows, given as its square (the
\* square of the absolute Pearson coefficient) from the columns' co-moment cxy
\* and their own moments vx and vy: NaN below two rows or for a constant column
CorrAbsSquared(n, cxy, vx, vy) ==
    IF n < 2 THEN NaN ELSE QMul(QDiv(cxy, vx), QDiv(cxy, vy))

(* ---------------- Dashboard 2: simulate_model_data ---------------- *)

pollutants_for_eval == <<"PM2.5", "PM10", "O3", "NO2">>

models_list == <<"ARIMA", "Prophet", "LSTM", "XGBoost">>

\* the number of historical rows the forecast chart shows
historical_points == 20

\* the steps np.random.uniform's range is divided in
Grid == 4

\* the i-th draw of the random stream of a seed, as a step 0..Grid
Draw(seed, i) == (seed + i * (i + seed + 1)) % (Grid + 1)

\* np.random.uniform(lo, hi), lo and hi in thousandths, for the i-th draw
uniform(lo, hi, seed, i) == Q(lo * Grid + (hi - lo) * Draw(seed, i), 1000 * Grid)

\* trend_factor, in hundredths
trend_factor(selected_model) ==
    CASE selected_model = "LSTM" -> 5
      [] selected_model = "Prophet" -> 4
      [] selected_model = "ARIMA" -> 3
      [] selected_model = "XGBoost" -> 6

\* an interval of the same width at every step
ci_half_width_constant(i) == Q(2, 100)

\* 0.02 * i, for i, f in enumerate(forecast_values)
ci_half_width(i) == Q(2 * i, 100)

\* performance_data: for each model 4 draws for rmse, then 4 for mae
PerformanceData(seed) ==
    [key \in {"labels"} \cup {models_list[j] : j \in 1..4} |->
        IF key = "labels" THEN pollutants_for_eval
        ELSE LET j == CHOOSE m \in 1..4 : models_list[m] = key
             IN  [rmse |-> [i \in 1..4 |-> uniform(10, 80, seed, (j - 1) * 8 + i)],
                  mae |-> [i \in 1..4 |-> uniform(5, 50, seed, (j - 1) * 8 + 4 + i)]]]

\* max(rmses, key=rmses.get): the first model of models_list with the greatest rmse
BestModel_greatest_rmse(perf, i) ==
    LET j == CHOOSE a \in 1..4 :
                /\ \A b \in 1..4 : QLe(perf[models_list[b]].rmse[i], perf[models_list[a]].rmse[i])
                /\ \A b \in 1..(a - 1) : perf[models_list[b]].rmse[i] # perf[models_list[a]].rmse[i]
    IN  models_list[j]

\* min(rmses, key=rmses.get): the first model of models_list with the least rmse
BestModel(perf, i) ==
    LET j == CHOOSE a \in 1..4 :
                /\ \A b \in 1..4 : QLe(perf[models_list[a]].rmse[i], perf[models_list[b]].rmse[i])
                /\ \A b \in 1..(a - 1) : perf[models_list[b]].rmse[i] # perf[models_list[a]].rmse[i]
    IN  models_list[j]

\* simulate_model_data(df_filtered, horizon, selected_model); labels are
\* <<"t", hour>> for a time and <<"+", h>> for the forecast hour "+hH"
simulate_model_data(rows, horizon, selected_model, seed) ==
    LET perf == Eval(PerformanceData(seed))
        forecast_hours == [h \in 1..horizon |-> <<"+", h>>]
        nones(n) == [i \in 1..n |-> None]
    IN  IF rows = <<>>
        THEN [performance |-> perf,
              forecast |->
                [labels |-> [h \in 1..historical_points |-> <<"t", h - 1>>] \o forecast_hours,
                 actual |-> [i \in 1..historical_points |-> I(0)] \o nones(horizon),
                 forecast |-> nones(historical_points) \o [i \in 1..horizon |-> I(0)],
                 ci_lower |-> nones(historical_points) \o [i \in 1..horizon |-> I(0)],
                 ci_upper |-> nones(historical_points) \o [i \in 1..horizon |-> I(0)]],
              accuracy_table |->
                [i \in 1..4 |-> [pollutant |-> pollutants_for_eval[i], best_model |-> "N/A",
                                 rmse |-> I(0), mae |-> I(0)]]]
        ELSE IF selected_model \notin {models_list[j] : j \in 1..4}
        THEN [raise |-> "KeyError"]
        ELSE LET hist == Head_(rows, historical_points)
                 historical_pm25 == [i \in 1..Len(hist) |-> hist[i].vals["PM2.5"]]
                 last_actual == historical_pm25[Len(historical_pm25)]
                 forecast_values ==
                    [i \in 1..horizon |->
                        QAdd(QAdd(last_actual, Q(i * trend_factor(selected_model), 100)),
                             uniform(-10, 10, seed, 32 + i))]
                 ci_lower == [i \in 1..horizon |-> QSub(forecast_values[i], ci_half_width(i - 1))]
                 ci_upper == [i \in 1..horizon |-> QAdd(forecast_values[i], ci_half_width(i - 1))]
             IN  [performance |-> perf,
                  forecast |->
                    [labels |-> [i \in 1..Len(hist) |-> <<"t", strftime(hist[i].timestamp)>>]
                                  \o forecast_hours,
                     actual |-> historical_pm25 \o nones(horizon),
                     forecast |-> nones(historical_points) \o forecast_values,
                     ci_lower |-> nones(historical_points) \o ci_lower,
                     ci_upper |-> nones(historical_points) \o ci_upper],
                  accuracy_table |->
                    [i \in 1..4 |->
                        LET best == BestModel(perf, i)
                        IN  [pollutant |-> pollutants_for_eval[i], best_model |-> best,
                             rmse |-> perf[best].rmse[i], mae |-> perf[best].mae[i]]]]

(* ---------------- Dashboard 1 and 2: get_dashboard_data ---------------- *)

\* Python None where a city name is expected
NoCity == "<None>"

\* the result of a call that ended with exception e
Raise(e) == [raise |-> e]

Raised(r) == "raise" \in DOMAIN r

\* np.nan_to_num(x, nan=0.0, posinf=0.0, neginf=0.0)
nan_to_num(x) == IF IsNum(x) THEN x ELSE I(0)

\* _get_unscaled_series(df, pollutant_name, scaler, pollutant_cols): the column
\* is put into a matrix of zeros, the whole matrix is inverse-transformed and
\* the column is taken out again
get_unscaled_series(df, pollutant_name, sc) ==
    IF IsEmpty(df) THEN [series |-> <<I(0)>>]
    ELSE IF pollutant_name \notin PollutantSet THEN Raise("ValueError")
    ELSE IF pollutant_name \notin df.columns THEN Raise("KeyError")
    ELSE IF ~sc.fitted THEN Raise("NotFittedError")
    ELSE LET pollutant_index == IndexOf(pollutant_name)
             temp_scaled ==
                [i \in 1..Len(df.rows) |->
                    [j \in 1..Len(pollutant_cols) |->
                        IF j = pollutant_index THEN df.rows[i].vals[pollutant_name] ELSE I(0)]]
             unscaled_data_full ==
                [i \in 1..Len(df.rows) |->
                    [j \in 1..Len(pollutant_cols) |->
                        inverse_transform(sc, pollutant_cols[j], temp_scaled[i][j])]]
         IN  [series |-> Eval([i \in 1..Len(df.rows) |-> nan_to_num(unscaled_data_full[i][pollutant_index])])]

\* the correlation matrix of the window in original units, without AQI;
\* inverse_transform refuses an unfitted scaler and an array of no rows
Correlations(df, sc) ==
    IF ~(PollutantSet \subseteq df.columns) THEN Raise("KeyError")
    ELSE IF ~sc.fitted THEN Raise("NotFittedError")
    ELSE IF IsEmpty(df) THEN Raise("ValueError")
    ELSE LET n == Len(df.rows)
             unscaled == Eval([c \in CorrCols |->
                            [i \in 1..n |->
                                fillna(inverse_transform(sc, c, df.rows[i].vals[c]), I(0))]])
             dev == Eval([c \in CorrCols |-> Deviations(unscaled[c])])
             moment == Eval([p \in CorrCols |-> [q \in CorrCols |-> SumProducts(dev[p], dev[q])]])
         IN  [matrix |-> [p \in CorrCols |-> [q \in CorrCols |->
                            CorrAbsSquared(n, moment[p][q], moment[p][p], moment[q][q])]]]

\* time_series: the hour labels and the scaled values of the selected column
TimeSeries(df, pollutant) ==
    [x |-> [i \in 1..Len(df.rows) |-> strftime(df.rows[i].timestamp)],
     y |-> IF pollutant \in PollutantSet THEN Column(df, pollutant) ELSE <<>>]

\* globals a handler has edited in place: the rows without a timestamp are gone
Globals_edited_in_place(data, sc, file) ==
    IF data = None \/ sc = None
    THEN load_and_preprocess_data(file)
    ELSE [status |-> "ok",
          data |-> [data EXCEPT !.rows =
                      SelectSeqBy(data.rows, [i \in 1..Len(data.rows) |-> data.rows[i].timestamp # NaT])],
          scaler |-> sc]

\* the globals after the lazy load at the head of a handler
Globals(data, sc, file) ==
    IF data = None \/ sc = None
    THEN load_and_preprocess_data(file)
    ELSE [status |-> "ok", data |-> data, scaler |-> sc]

\* a get_dashboard_data of Dashboard 1 that bins the selected pollutant, as
\* Dashboard 2 does
get_dashboard_data_1_binning_selected(g, city, time_range, pollutant) ==
    IF g.status = "raise" THEN Raise("ValueError")
    ELSE IF IsEmpty(g.data) \/ g.scaler = None
    THEN [error |-> "Data or Scaler is not initialized properly."]
    ELSE LET df == DataFrame(g.data.columns, Window(g.data.rows))
             selected == get_unscaled_series(df, pollutant, g.scaler)
             corr == Correlations(df, g.scaler)
         IN  IF pollutant \notin df.columns THEN Raise("KeyError")
             ELSE IF Raised(selected) THEN selected
             ELSE IF Raised(corr) THEN corr
             ELSE [time_series |-> TimeSeries(df, pollutant),
                   summary |-> Summary(selected.series),
                   distribution |-> [labels |-> dashboard_labels, counts |-> Histogram(selected.series)],
                   correlations |-> corr.matrix,
                   data_quality |-> [completeness |-> 92, validity |-> 87]]

\* Dashboard 1 get_dashboard_data(city, time_range, pollutant): city and
\* time_range are not used
get_dashboard_data_1(g, city, time_range, pollutant) ==
    IF g.status = "raise" THEN Raise("ValueError")
    ELSE IF IsEmpty(g.data) \/ g.scaler = None
    THEN [error |-> "Data or Scaler is not initialized properly."]
    ELSE LET df == DataFrame(g.data.columns, Window(g.data.rows))
             selected == get_unscaled_series(df, pollutant, g.scaler)
             pm25 == get_unscaled_series(df, "PM2.5", g.scaler)
             corr == Correlations(df, g.scaler)
         IN  IF pollutant \notin df.columns THEN Raise("KeyError")
             ELSE IF Raised(selected) THEN selected
             ELSE IF Raised(pm25) THEN pm25
             ELSE IF Raised(corr) THEN corr
             ELSE [time_series |-> TimeSeries(df, pollutant),
                   summary |-> Summary(selected.series),
                   distribution |-> [labels |-> dashboard_labels, counts |-> Histogram(pm25.series)],
                   correlations |-> corr.matrix,
                   data_quality |-> [completeness |-> 92, validity |-> 87]]

\* df['City'].unique().tolist(): the cities in order of first appearance
UniqueCities(rows) ==
    LET first == SelectSeqBy(rows, [i \in 1..Len(rows) |->
                                      \A j \in 1..(i - 1) : rows[j].City # rows[i].City])
    IN  [i \in 1..Len(first) |-> first[i].City]

\* an empty-window result that leaves model_output out
EmptyWindowResult_without_model_output(horizon, seed) ==
    [time_series |-> [x |-> <<>>, y |-> <<>>],
     summary |-> [mean |-> I(0), median |-> I(0), min |-> I(0), max |-> I(0),
                  std_dev |-> I(0), data_points |-> 0],
     distribution |-> [labels |-> dashboard_labels, counts |-> [b \in 1..6 |-> 0]],
     correlations |-> [p \in CorrCols |-> [q \in CorrCols |-> I(0)]],
     data_quality |-> [completeness |-> 0, validity |-> 0]]

\* Dashboard 2: what get_dashboard_data returns for a window of no rows
EmptyWindowResult(horizon, seed) ==
    [time_series |-> [x |-> <<>>, y |-> <<>>],
     summary |-> [mean |-> I(0), median |-> I(0), min |-> I(0), max |-> I(0),
                  std_dev |-> I(0), data_points |-> 0],
     distribution |-> [labels |-> dashboard_labels, counts |-> [b \in 1..6 |-> 0]],
     correlations |-> [p \in CorrCols |-> [q \in CorrCols |-> I(0)]],
     data_quality |-> [completeness |-> 0, validity |-> 0],
     model_output |-> simulate_model_data(<<>>, horizon, "LSTM", seed)]

\* Dashboard 2 get_dashboard_data(city, time_range, pollutant, model, horizon);
\* seed is the state of the random generator
get_dashboard_data_2(g, city, time_range, pollutant, model, horizon, seed) ==
    IF g.status = "raise" THEN Raise("ValueError")
    ELSE IF IsEmpty(g.data) \/ g.scaler = None
    THEN [error |-> "Data or Scaler is not initialized properly."]
    ELSE LET rows == g.data.rows
             cities == UniqueCities(rows)
             filtered ==
                IF city \notin {NoCity, ""} /\ "City" \in g.data.columns
                THEN LET c == IF \E i \in 1..Len(cities) : cities[i] = city
                              THEN city ELSE rows[1].City
                     IN  SelectSeqBy(rows, [i \in 1..Len(rows) |-> rows[i].City = c])
                ELSE rows
             df == DataFrame(g.data.columns, Window(filtered))
             selected == get_unscaled_series(df, pollutant, g.scaler)
             corr == Correlations(df, g.scaler)
             model_output == simulate_model_data(df.rows, horizon, model, seed)
         IN  IF IsEmpty(df)
             THEN EmptyWindowResult(horizon, seed)
             ELSE IF pollutant \notin df.columns THEN Raise("KeyError")
             ELSE IF Raised(selected) THEN selected
             ELSE IF Raised(corr) THEN corr
             ELSE IF Raised(model_output) THEN model_output
             ELSE [time_series |-> TimeSeries(df, pollutant),
                   summary |-> Summary(selected.series),
                   distribution |-> [labels |-> dashboard_labels, counts |-> Histogram(selected.series)],
                   correlations |-> corr.matrix,
                   data_quality |-> [completeness |-> 92, validity |-> 87],
                   model_output |-> model_output]

\* get_available_cities(), on the globals after its lazy load
get_available_cities(g) ==
    IF "City" \in g.data.columns THEN UniqueCities(g.data.rows) ELSE <<>>

(* ---------------- Dashboard 1 and 2: the routes of app.py ---------------- *)

\* a query parameter the request does not carry
Absent == "<absent>"

\* request.args.get(key, default)
args_get(value, default) == IF value = Absent THEN default ELSE value

\* sanitize_for_json of a float: NaN and Infinity become None
sanitize(x) == IF IsNum(x) THEN x ELSE None

\* sanitize_for_json(data) of a result of get_dashboard_data
sanitize_for_json(data) ==
    [data EXCEPT
        !.time_series.y = [i \in 1..Len(@) |-> sanitize(@[i])],
        !.summary = [mean |-> sanitize(@.mean), median |-> sanitize(@.median),
                     min |-> sanitize(@.min), max |-> sanitize(@.max),
                     std_dev |-> sanitize(@.std_dev), data_points |-> @.data_points],
        !.correlations = [p \in CorrCols |-> [q \in CorrCols |-> sanitize(@[p][q])]]]

\* a JSON response
jsonify(body, status) == [status |-> status, json |-> TRUE, body |-> body]

\* Flask's answer to an exception no handler catches: status 500, an HTML page
UnhandledException(r) == [status |-> 500, json |-> FALSE, body |-> r]

\* the arguments get_data passes to get_dashboard_data: Dashboard 1 takes the
\* location parameter, Dashboard 2 always the first available city
CallArgs(d, g, req) ==
    LET all_cities == get_available_cities(g)
        default_city == IF all_cities # <<>> THEN all_cities[1] ELSE NoCity
    IN  [city |-> IF d = 1 THEN args_get(req.location, default_city) ELSE default_city,
         time_range |-> args_get(req.time_range, "Last 24 Hours"),
         pollutant |-> args_get(req.pollutant, "PM2.5")]

\* what get_data calls get_dashboard_data with, NoCall when it returns before
NoCall == [called |-> FALSE]

get_data_call(d, g, req) ==
    LET a == CallArgs(d, g, req)
    IN  IF a.city \in {NoCity, ""} THEN NoCall
        ELSE [called |-> TRUE, city |-> a.city, time_range |-> a.time_range,
              pollutant |-> a.pollutant]

\* GET /api/data of Dashboard 1
get_data_1(g, req) ==
    LET c == get_data_call(1, g, req)
        data == get_dashboard_data_1(g, c.city, c.time_range, c.pollutant)
    IN  IF ~c.called
        THEN jsonify([error |-> "No data or cities available to process."], 500)
        ELSE IF Raised(data) THEN UnhandledException(data)
        ELSE IF "error" \notin DOMAIN data THEN jsonify(sanitize_for_json(data), 200)
        ELSE jsonify([error |-> "Could not retrieve data or file is missing."], 500)

\* GET /api/data of Dashboard 2
get_data_2(g, req, seed) ==
    LET c == get_data_call(2, g, req)
        data == get_dashboard_data_2(g, c.city, c.time_range, c.pollutant, "LSTM", 4, seed)
    IN  IF ~c.called
        THEN jsonify([error |-> "FATAL: Data file contains no records or is unreadable. Could not determine default city."], 500)
        ELSE IF Raised(data) THEN UnhandledException(data)
        ELSE IF "error" \notin DOMAIN data THEN jsonify(data, 200)
        ELSE jsonify([error |-> "Internal Server Error during data processing."], 500)

(* ---------------- Dashboard 3: DataHandler and the routes of api.py ---------------- *)

\* round(x, 2) of a float
Round2(x) ==
    IF ~IsNum(x) THEN NaN
    ELSE LET t == (100 * x.n) \div x.d
             twice == 2 * (100 * x.n - t * x.d)
         IN  IF twice < x.d \/ (twice = x.d /\ t % 2 = 0) THEN Q(t, 100) ELSE Q(t + 1, 100)

\* str.lower() of a city name
lower(s) ==
    CASE s = "Delhi" -> "delhi"
      [] s = "Mumbai" -> "mumbai"
      [] s = "Pune" -> "pune"
      [] OTHER -> s

\* DataFrame.tail(n)
tail(rows, n) == SubSeq(rows, IF Len(rows) > n THEN Len(rows) - n + 1 ELSE 1, Len(rows))

\* self.df[self.df['City'] == city]; None equals no city
CityRows(df, city) ==
    SelectSeqBy(df.rows, [i \in 1..Len(df.rows) |-> df.rows[i].City = city])

\* df[df["City"].str.lower() == city.lower()]
CityRowsLower(df, city) ==
    SelectSeqBy(df.rows, [i \in 1..Len(df.rows) |-> lower(df.rows[i].City) = lower(city)])

\* [['Time'] + cols].to_dict(orient="records")
Records(rows, cols) ==
    [i \in 1..Len(rows) |-> [Time |-> rows[i].Time, vals |-> [c \in cols |-> rows[i].vals[c]]]]

\* Flask's JSON encoder takes a Timestamp but raises on NaT
HasNaT(records) == \E i \in 1..Len(records) : records[i].Time = NaT

jsonify_records(body, records, status) ==
    IF HasNaT(records) THEN Raise("ValueError") ELSE jsonify(body, status)

\* DataHandler.get_aqi_trends(city), start_time and end_time left out
DataHandler_get_aqi_trends(df, city) ==
    LET city_df == CityRows(df, city)
        kept == SelectSeqBy(city_df, [i \in 1..Len(city_df) |->
                                        city_df[i].Time # NaT /\ IsNum(city_df[i].vals["AQI"])])
    IN  Records(kept, {"AQI"})

\* DataHandler.get_pollutant_averages(city), start_time and end_time left out
DataHandler_get_pollutant_averages(df, city) ==
    LET city_df == CityRows(df, city)
    IN  IF city_df = <<>> THEN [empty |-> TRUE]
        ELSE [empty |-> FALSE,
              vals |-> [c \in {"PM2.5", "PM10", "O3"} |->
                          Round2(Mean([i \in 1..Len(city_df) |-> city_df[i].vals[c]]))]]

\* the category DataHandler.get_dashboard_data gives an average AQI
Category(avg_aqi) ==
    IF QLe(avg_aqi, I(50)) THEN "Good"
    ELSE IF QLe(avg_aqi, I(100)) THEN "Satisfactory"
    ELSE IF QLe(avg_aqi, I(200)) THEN "Moderate"
    ELSE IF QLe(avg_aqi, I(300)) THEN "Poor"
    ELSE IF QLe(avg_aqi, I(400)) THEN "Very Poor"
    ELSE "Severe"

\* DataHandler.get_dashboard_data(city); alerts are given by their titles
DataHandler_get_dashboard_data(df, city) ==
    LET city_df == CityRows(df, city)
        mean == Mean([i \in 1..Len(city_df) |-> city_df[i].vals["AQI"]])
        avg_aqi == IF IsNum(mean) THEN Round2(mean) ELSE I(0)
    IN  IF city_df = <<>> THEN [error |-> "No data found for city"]
        ELSE [city |-> city,
              AQI |-> avg_aqi,
              category |-> Category(avg_aqi),
              forecast |-> Records(tail(city_df, 7), {"AQI"}),
              pollutants |-> Records(tail(city_df, 24), {"PM2.5", "PM10", "O3"}),
              alerts |->
                 << IF QLt(I(150), avg_aqi) THEN "Unhealthy Air Quality"
                    ELSE IF QLt(I(100), avg_aqi) THEN "Moderate Air Quality"
                    ELSE "Good Air Quality" >>
                 \o (IF QLt(I(80), city_df[Len(city_df)].vals["O3"])
                     THEN <<"High Ozone Levels">> ELSE <<>>)]

\* GET /api/aqi_trends: request.args.get('city') is None when the parameter is absent
api_get_aqi_trends(df, city) ==
    LET data == DataHandler_get_aqi_trends(df, city)
        r == jsonify_records(data, data, 200)
    IN  IF Raised(r) THEN UnhandledException(r) ELSE r

\* GET /api/pollutant_averages
api_get_pollutant_averages(df, city) ==
    jsonify(DataHandler_get_pollutant_averages(df, city), 200)

\* GET /api/current_aqi: an exception inside the try block becomes a 500 answer
api_current_aqi(df, city) ==
    IF city \in {Absent, ""} THEN jsonify([error |-> "City parameter missing"], 400)
    ELSE LET data == DataHandler_get_dashboard_data(df, city)
         IN  IF "error" \in DOMAIN data THEN jsonify(data, 404)
             ELSE LET r == jsonify_records(data, data.forecast \o data.pollutants, 200)
                  IN  IF Raised(r) THEN jsonify([error |-> r.raise], 500) ELSE r

weekdays == <<"Mon", "Tue", "Wed", "Thu", "Fri", "Sat", "Sun">>

\* a variation drawn too widely
variation_wide(seed, i) == uniform(500, 1500, seed, i)

\* np.random.uniform(0.85, 1.15), the i-th draw
variation(seed, i) == uniform(850, 1150, seed, i)

\* np.random.randint(50, 150)
randint_50_150(seed) == 50 + (99 * Draw(seed, 0)) \div Grid

\* GET /api/forecast
api_forecast(df, city, seed) ==
    IF city \in {Absent, ""} THEN jsonify([error |-> "City parameter missing"], 400)
    ELSE LET city_df == CityRowsLower(df, city)
             latest_aqi == IF city_df # <<>> THEN city_df[Len(city_df)].vals["AQI"]
                           ELSE I(randint_50_150(seed))
         IN  jsonify([d \in 1..Len(weekdays) |->
                        [day |-> weekdays[d],
                         AQI |-> Round1(QMul(latest_aqi, variation(seed, d)))]], 200)

\* GET /api/pollutant_concentrations: city.lower() of None raises
\* AttributeError, and nothing catches it
pollutant_concentrations(df, city) ==
    IF city = Absent THEN UnhandledException(Raise("AttributeError"))
    ELSE LET city_data == tail(CityRowsLower(df, city), 24)
             records == Records(city_data, PollutantSet \ {"AQI"})
             r == jsonify_records(records, records, 200)
         IN  IF Raised(r) THEN UnhandledException(r) ELSE r

\* GET /api/alerts: the titles of the alerts of the last row of the city
alerts(df, city) ==
    IF city = Absent THEN UnhandledException(Raise("AttributeError"))
    ELSE LET city_data == tail(CityRowsLower(df, city), 1)
         IN  IF city_data = <<>> THEN jsonify(<<>>, 200)
             ELSE LET latest == city_data[1]
                      aqi == latest.vals["AQI"]
                  IN  jsonify(<< IF QLt(I(150), aqi) THEN "Unhealthy for Sensitive Groups"
                                 ELSE IF QLt(I(100), aqi) THEN "Moderate Air Quality"
                                 ELSE "Good Air Quality" >>
                              \o (IF QLt(I(80), latest.vals["O3"])
                                  THEN <<"High Ozone Levels Expected">> ELSE <<>>)
                              \o (IF QLt(I(90), latest.vals["PM2.5"])
                                  THEN <<"High PM2.5 Detected">> ELSE <<>>), 200)

\* the routes of api.py that read the query parameter 'city'
CityRoutes == {"/api/aqi_trends", "/api/pollutant_averages", "/api/current_aqi",
               "/api/forecast", "/api/pollutant_concentrations", "/api/alerts"}

\* the answer of Dashboard 3 to GET route?city=...
api_route(route, df, city, seed) ==
    CASE route = "/api/aqi_trends" -> api_get_aqi_trends(df, city)
      [] route = "/api/pollutant_averages" -> api_get_pollutant_averages(df, city)
      [] route = "/api/current_aqi" -> api_current_aqi(df, city)
      [] route = "/api/forecast" -> api_forecast(df, city, seed)
      [] route = "/api/pollutant_concentrations" -> pollutant_concentrations(df, city)
      [] route = "/api/alerts" -> alerts(df, city)

(* ---------------- the state machine ---------------- *)

Dashboards == {1, 2, 3}

NoRequest == [route |-> "none"]

NoResponse == [status |-> 0, json |-> FALSE, body |-> None]

\* the location parameter: left out, empty, or a city some files hold and others do not
Locations == {Absent, "", "Mumbai"}

\* the pollutant parameter: left out, a pollutant column, or no column at all
Pollutants == {Absent, "AQI", "CO", "Bogus"}

TimeRanges == {Absent, "Last 7 Days"}

\* the states the random generator may be in when a request draws from it
Seeds == 0..MaxSeed

Init ==
    /\ dash \in Dashboards
    /\ csv_file \in CsvFiles
    /\ air_aware_data = None
    /\ scaler = None
    /\ data_handler = None
    /\ pc = "start"
    /\ request = NoRequest
    /\ call = NoCall
    /\ response = NoResponse

\* Dashboard 1 and 2: importing data_handler runs load_and_preprocess_data()
\* (its last line); an exception there ends the program
ImportDataHandler ==
    /\ pc = "start"
    /\ dash \in {1, 2}
    /\ LET r == load_and_preprocess_data(csv_file)
       IN  /\ air_aware_data' = r.data
           /\ scaler' = r.scaler
           /\ pc' = IF r.status = "raise" THEN "crashed"
                    ELSE IF dash = 1 THEN "imported" ELSE "serving"
    /\ UNCHANGED <<dash, csv_file, data_handler, request, call, response>>

\* Dashboard 1: app.py calls load_and_preprocess_data() once more
AppLoad ==
    /\ pc = "imported"
    /\ LET r == load_and_preprocess_data(csv_file)
       IN  /\ air_aware_data' = r.data
           /\ scaler' = r.scaler
           /\ pc' = IF r.status = "raise" THEN "crashed" ELSE "serving"
    /\ UNCHANGED <<dash, csv_file, data_handler, request, call, response>>

\* Dashboard 3: api.py builds DataHandler(CSV_PATH); an exception ends the program
CreateDataHandler ==
    /\ pc = "start"
    /\ dash = 3
    /\ LET r == DataHandler_load_data(csv_file)
       IN  /\ data_handler' = r.df
           /\ pc' = IF r.status = "raise" THEN "crashed" ELSE "serving"
    /\ UNCHANGED <<dash, csv_file, air_aware_data, scaler, request, call, response>>

\* GET / of Dashboard 1 and 2: the page with the list of cities
Dashboard ==
    /\ pc = "serving"
    /\ dash \in {1, 2}
    /\ LET g == Globals(air_aware_data, scaler, csv_file)
       IN  /\ air_aware_data' = g.data
           /\ scaler' = g.scaler
           /\ response' = [status |-> 200, json |-> FALSE,
                           body |-> [cities |-> get_available_cities(g)]]
    /\ request' = [route |-> "/"]
    /\ call' = NoCall
    /\ pc' = "responded"
    /\ UNCHANGED <<dash, csv_file, data_handler>>

\* GET /api/data of Dashboard 1 and 2
GetData ==
    /\ pc = "serving"
    /\ dash \in {1, 2}
    /\ \E loc \in Locations, tr \in TimeRanges, pol \in Pollutants,
          seed \in IF dash = 2 THEN Seeds ELSE {0} :
          LET req == [route |-> "/api/data", location |-> loc, time_range |-> tr, pollutant |-> pol]
              g == Globals(air_aware_data, scaler, csv_file)
          IN  /\ request' = req
              /\ air_aware_data' = g.data
              /\ scaler' = g.scaler
              /\ call' = get_data_call(dash, g, req)
              /\ response' = IF dash = 1 THEN get_data_1(g, req) ELSE get_data_2(g, req, seed)
    /\ pc' = "responded"
    /\ UNCHANGED <<dash, csv_file, data_handler>>

\* the city parameter of Dashboard 3: left out, empty, a city some files hold
\* (in its own and in another case), and a city no file holds
Cities == {Absent, "", "Delhi", "mumbai", "Pune"}

\* GET of one of the routes of Dashboard 3 that read 'city'; only /api/forecast
\* draws random numbers
ApiRequest ==
    /\ pc = "serving"
    /\ dash = 3
    /\ \E route \in CityRoutes, city \in Cities :
          \E seed \in IF route = "/api/forecast" THEN Seeds ELSE {0} :
             /\ request' = [route |-> route, city |-> city]
             /\ response' = api_route(route, data_handler, city, seed)
    /\ call' = NoCall
    /\ pc' = "responded"
    /\ UNCHANGED <<dash, csv_file, air_aware_data, scaler, data_handler>>

\* the response goes out and the server waits for the next request
SendResponse ==
    /\ pc = "responded"
    /\ pc' = "serving"
    /\ request' = NoRequest
    /\ call' = NoCall
    /\ response' = NoResponse
    /\ UNCHANGED <<dash, csv_file, air_aware_data, scaler, data_handler>>

Next ==
    \/ ImportDataHandler
    \/ AppLoad
    \/ CreateDataHandler
    \/ Dashboard
    \/ GetData
    \/ ApiRequest
    \/ SendResponse

Spec == Init /\ [][Next]_vars

(* ---------------- the same program on files longer than the window ---------------- *)

\* greatest number of data rows of a long CSV file
MaxLargeRows == 26

\* the orders the lines of a long file come in: oldest first, newest first,
\* shuffled with one unparseable time, or with no parseable time at all
Orders == {"ascending", "descending", "shuffled", "undated"}

\* line i of a long file of n lines: a reading of Delhi (line 2: of Mumbai),
\* one hour apart from the next, every AQI different
LargeRow(i, n, order) ==
    LET t == CASE order = "ascending" -> i
               [] order = "descending" -> n + 1 - i
               [] order = "shuffled" -> (7 * i) % 29
               [] order = "undated" -> i
        time == IF order = "undated" \/ (order = "shuffled" /\ i = 5)
                THEN <<1, 99>> ELSE <<1 + (t \div 24), t % 24>>
    IN  CsvRow(IF i = 2 THEN "Mumbai" ELSE "Delhi", time, I(i), I(10 * ((3 * i) % 11)), I(10), I(10))

LargeCsvFiles ==
    { [exists |-> TRUE, rows |-> [i \in 1..n |-> LargeRow(i, n, order)]] :
        n \in (WindowSize - 1)..MaxLargeRows, order \in Orders }

LargeInit ==
    /\ dash \in Dashboards
    /\ csv_file \in LargeCsvFiles
    /\ air_aware_data = None
    /\ scaler = None
    /\ data_handler = None
    /\ pc = "start"
    /\ request = NoRequest
    /\ call = NoCall
    /\ response = NoResponse

LargeSpec == LargeInit /\ [][Next]_vars

(* ---------------- properties ---------------- *)

\* Dashboard 1 or 2 with its data loaded from an existing file and scaled
Loaded ==
    /\ dash \in {1, 2}
    /\ air_aware_data # None
    /\ scaler # None
    /\ scaler.fitted

\* the rows of the file after drop_duplicates, parsing and the median fill,
\* before the rows with a negative value are removed
FilledRows == FillMedians(ParseRows(drop_duplicates(csv_file.rows)))

\* a row of the loaded data, back in original units
Unscaled(row) == [c \in PollutantSet |-> inverse_transform(scaler, c, row.vals[c])]

\* C1: for the scaler fitted by load_and_preprocess_data, _get_unscaled_series of
\* the scaled column of every pollutant p returns the retained values of p, each
\* equal to scaled * (max - min) + min, a constant column included.
C1_InverseScalingRoundTrip ==
    Loaded =>
        LET clean == Eval(CleanRows(csv_file))
        IN  \A p \in PollutantSet :
                LET r == get_unscaled_series(air_aware_data, p, scaler)
                IN  /\ ~Raised(r)
                    /\ Len(r.series) = Len(clean)
                    /\ \A i \in 1..Len(clean) :
                          /\ r.series[i] = clean[i].vals[p]
                          /\ r.series[i] =
                                QAdd(QMul(air_aware_data.rows[i].vals[p],
                                          QSub(scaler.data_max_[p], scaler.data_min_[p])),
                                     scaler.data_min_[p])

\* C1 witness: loaded data of several rows with a constant column and a varying one
C1_Witness ==
    /\ Loaded
    /\ pc = "serving"
    /\ Len(air_aware_data.rows) >= 2
    /\ \E p \in PollutantSet : scaler.data_min_[p] = scaler.data_max_[p]
    /\ \E q \in PollutantSet : scaler.data_min_[q] # scaler.data_max_[q]

\* C2: after a successful load every value of every pollutant column of
\* air_aware_data lies in [0, 1], whatever requests have been served since.
C2_ScaledInUnitInterval ==
    Loaded =>
        \A i \in 1..Len(air_aware_data.rows) : \A p \in PollutantSet :
            /\ QLe(I(0), air_aware_data.rows[i].vals[p])
            /\ QLe(air_aware_data.rows[i].vals[p], I(1))

\* C2 witness: a request has been answered from data holding a value strictly
\* between 0 and 1
C2_Witness ==
    /\ Loaded
    /\ pc = "responded"
    /\ request.route = "/api/data"
    /\ response.status = 200
    /\ \E i \in 1..Len(air_aware_data.rows) : \E p \in PollutantSet :
          /\ QLt(I(0), air_aware_data.rows[i].vals[p])
          /\ QLt(air_aware_data.rows[i].vals[p], I(1))

\* the rows of the loaded data, back in original units
RetainedRows ==
    [j \in 1..Len(air_aware_data.rows) |->
        [air_aware_data.rows[j] EXCEPT !.vals = Unscaled(air_aware_data.rows[j])]]

\* row f is among the rows kept
IsRetainedIn(f, kept) == \E j \in 1..Len(kept) : kept[j] = f

\* C3: no retained row has a negative pollutant value in original units, and a
\* row with a negative value (after the median fill) in some pollutant column is
\* not among the retained rows.
C3_NoNegativeRowRetained ==
    Loaded =>
        LET kept == Eval(RetainedRows)
            filled == Eval(FilledRows)
        IN  /\ \A j \in 1..Len(kept) : \A p \in PollutantSet : QLe(I(0), kept[j].vals[p])
            /\ \A i \in 1..Len(filled) :
                  (\E p \in PollutantSet : QLt(filled[i].vals[p], I(0)))
                     => ~IsRetainedIn(filled[i], kept)

\* C3 witness: the file held a row with a negative value, and the load succeeded
C3_Witness ==
    /\ Loaded
    /\ pc = "serving"
    /\ \E i \in 1..Len(FilledRows) : \E p \in PollutantSet : QLt(FilledRows[i].vals[p], I(0))

\* the rows of the dataset the running dashboard holds
DatasetRows == IF dash = 3 THEN data_handler.rows ELSE air_aware_data.rows

\* C4 as stated: in Dashboard 1, 2 and 3 a missing file does not make loading
\* raise, and leaves a placeholder dataset of exactly one row.
C4_MissingFilePlaceholder ==
    (~csv_file.exists /\ pc # "start") =>
        /\ pc # "crashed"
        /\ Len(DatasetRows) = 1

\* C4 amended: in Dashboard 1 and 2 a missing file leaves the one-row placeholder
\* and an unfitted scaler; in Dashboard 3 loading raises and no dataset exists.
C4_MissingFileByDashboard ==
    (~csv_file.exists /\ pc # "start") =>
        IF dash \in {1, 2}
        THEN /\ pc # "crashed"
             /\ air_aware_data # None
             /\ Len(air_aware_data.rows) = 1
             /\ air_aware_data.rows[1].City = "Loading Failed"
             /\ scaler = UnfittedScaler
        ELSE /\ pc = "crashed"
             /\ data_handler = None

\* C4 witness: Dashboard 1 or 2 serving after loading with the file missing
C4_Witness ==
    /\ ~csv_file.exists
    /\ dash \in {1, 2}
    /\ pc = "serving"

\* a JSON body with an error string
IsJsonError(r) ==
    /\ r.json
    /\ ~Raised(r.body)
    /\ "error" \in DOMAIN r.body

\* C5 as stated: with the file missing, GET /api/data with default parameters
\* answers 500 with a JSON error, get_dashboard_data raising nothing.
C5_MissingFileJsonError ==
    ( /\ dash \in {1, 2}
      /\ ~csv_file.exists
      /\ pc = "responded"
      /\ request.route = "/api/data"
      /\ request.location = Absent
      /\ request.time_range = Absent
      /\ request.pollutant = Absent )
    => (response.status = 500 /\ IsJsonError(response))

\* C6 as stated, for a dataset loaded from an existing file: GET /api/data with
\* a pollutant that is none of the seven columns answers 500 with a JSON
\* error, get_dashboard_data raising nothing.
C6_UnknownPollutantJsonError ==
    ( /\ Loaded
      /\ pc = "responded"
      /\ request.route = "/api/data"
      /\ args_get(request.pollutant, "PM2.5") \notin PollutantSet )
    => (response.status = 500 /\ IsJsonError(response))

\* the rows of the file after drop_duplicates and parsing, before the fill
ParsedRows == ParseRows(drop_duplicates(csv_file.rows))

HasUnparsedCell(row) == \E p \in PollutantSet : ~IsNum(row.vals[p])

\* the parsed rows with each cell that is no number replaced by the median of
\* the parseable values of its column
MedianFilled(parsed) ==
    LET med == Eval([p \in PollutantSet |-> Median([k \in 1..Len(parsed) |-> parsed[k].vals[p]])])
    IN  [i \in 1..Len(parsed) |->
            [parsed[i] EXCEPT !.vals =
                [p \in PollutantSet |-> IF IsNum(parsed[i].vals[p]) THEN parsed[i].vals[p] ELSE med[p]]]]

NoMissingValue ==
    \A j \in 1..Len(air_aware_data.rows) : \A p \in PollutantSet :
        IsNum(air_aware_data.rows[j].vals[p])

\* C7 as stated: a row with a cell that fails parsing or is missing is kept, the
\* cell replaced by the median of its column's parseable values, and the loaded
\* data holds no missing value.
C7_MedianFilledRowKept ==
    Loaded =>
        LET parsed == Eval(ParsedRows)
            expected == Eval(MedianFilled(parsed))
            kept == Eval(RetainedRows)
        IN  /\ \A i \in 1..Len(parsed) :
                  HasUnparsedCell(parsed[i]) => IsRetainedIn(expected[i], kept)
            /\ NoMissingValue

\* C7 amended: such a row is kept with the median in the cell exactly when none
\* of its pollutant values is negative after the fill (the filled cell included);
\* otherwise it is removed; the loaded data holds no missing value.
C7_MedianFilledRowKeptUnlessNegative ==
    Loaded =>
        LET parsed == Eval(ParsedRows)
            expected == Eval(MedianFilled(parsed))
            kept == Eval(RetainedRows)
        IN  /\ \A i \in 1..Len(parsed) :
                  HasUnparsedCell(parsed[i]) =>
                     (IsRetainedIn(expected[i], kept)
                        <=> \A p \in PollutantSet : QLe(I(0), expected[i].vals[p]))
            /\ NoMissingValue

\* C7 witness: a row with an unparseable cell is among the loaded rows
C7_Witness ==
    /\ Loaded
    /\ pc = "serving"
    /\ LET parsed == Eval(ParsedRows)
           expected == Eval(MedianFilled(parsed))
           kept == Eval(RetainedRows)
       IN  \E i \in 1..Len(parsed) :
              /\ HasUnparsedCell(parsed[i])
              /\ IsRetainedIn(expected[i], kept)

\* C8 as stated: DataHandler.df holds no row whose AQI cell was missing or was no
\* number, so it has as many rows as the file has rows with a numeric AQI.
C8_InvalidAqiRowsDropped ==
    (dash = 3 /\ data_handler # None) =>
        Len(data_handler.rows) =
            Cardinality({i \in 1..Len(csv_file.rows) : IsNum(csv_file.rows[i].vals["AQI"])})

ResultFields == {"time_series", "summary", "distribution", "correlations", "data_quality", "model_output"}

\* GET /api/data of Dashboard 1 or 2 answered with a result of get_dashboard_data
AnsweredWithResult ==
    /\ dash \in {1, 2}
    /\ pc = "responded"
    /\ request.route = "/api/data"
    /\ response.status = 200

\* C9 as stated: every non-error result of get_dashboard_data of Dashboard 1 and
\* 2 has exactly the six fields.
C9_ResultHasSixFields == AnsweredWithResult => DOMAIN response.body = ResultFields

\* C9 amended: a non-error result of Dashboard 2 has exactly the six fields, for
\* a populated and for an empty window; one of Dashboard 1 has exactly the five
\* fields other than model_output.
C9_ResultFieldsByDashboard ==
    AnsweredWithResult =>
        DOMAIN response.body = IF dash = 2 THEN ResultFields ELSE ResultFields \ {"model_output"}

\* C9 witness: Dashboard 2 answered for an empty window
C9_Witness ==
    /\ AnsweredWithResult
    /\ dash = 2
    /\ response.body.summary.data_points = 0

\* a number of a JSON body, with NaN and None taken as the same
JsonNumber(x) == IF "k" \in DOMAIN x /\ x.k = "num" THEN x ELSE None

RECURSIVE SumInts(_)
SumInts(s) == IF s = <<>> THEN 0 ELSE SumInts(SubSeq(s, 1, Len(s) - 1)) + s[Len(s)]

\* the window of the rows of city c alone
CityWindow(c) ==
    DataFrame(air_aware_data.columns,
              Window(SelectSeqBy(air_aware_data.rows,
                                 [i \in 1..Len(air_aware_data.rows) |-> air_aware_data.rows[i].City = c])))

\* C10 as stated: for a city c of the dataset, time_series, summary, distribution
\* and correlations of get_dashboard_data(city=c) come from the rows of c alone.
C10_ResultFromRowsOfCity ==
    ( /\ AnsweredWithResult
      /\ Loaded
      /\ call.called
      /\ \E i \in 1..Len(air_aware_data.rows) : air_aware_data.rows[i].City = call.city )
    => LET w == CityWindow(call.city)
           body == response.body
           y == Column(w, call.pollutant)
           corr == Correlations(w, scaler)
       IN  /\ body.time_series.x = [i \in 1..Len(w.rows) |-> strftime(w.rows[i].timestamp)]
           /\ Len(body.time_series.y) = Len(y)
           /\ \A i \in 1..Len(y) : JsonNumber(body.time_series.y[i]) = JsonNumber(y[i])
           /\ body.summary.data_points = Len(w.rows)
           /\ SumInts(body.distribution.counts) = Len(w.rows)
           /\ ~IsEmpty(w) =>
                 \A p \in CorrCols : \A q \in CorrCols :
                    JsonNumber(body.correlations[p][q]) = JsonNumber(corr.matrix[p][q])

\* C11 as stated: when Dashboard 2 has loaded a file with cities, get_data passes
\* the request's location to get_dashboard_data if it is present and not empty,
\* and the first available city otherwise.
C11_LocationParameterUsed ==
    ( /\ dash = 2
      /\ Loaded
      /\ pc = "responded"
      /\ request.route = "/api/data"
      /\ call.called )
    => call.city = IF request.location \notin {Absent, ""}
                   THEN request.location
                   ELSE get_available_cities(Globals(air_aware_data, scaler, csv_file))[1]

\* the rows get_dashboard_data takes its window from: all rows in Dashboard 1,
\* the rows of the city of the call in Dashboard 2
CandidateRows ==
    IF dash = 1 THEN air_aware_data.rows
    ELSE SelectSeqBy(air_aware_data.rows,
                     [i \in 1..Len(air_aware_data.rows) |-> air_aware_data.rows[i].City = call.city])

\* the time_series and the number of rows of the answer to the request with
\* time_range tr in place of its own
AnswerForTimeRange(tr) ==
    LET g == Globals(air_aware_data, scaler, csv_file)
        req == [request EXCEPT !.time_range = tr]
        r == IF dash = 1 THEN get_data_1(g, req) ELSE get_data_2(g, req, 0)
    IN  [status |-> r.status, time_series |-> r.body.time_series,
         data_points |-> r.body.summary.data_points]

\* C12: the window of an answered request has at most 24 rows, all of them
\* candidate rows with a valid timestamp; no valid candidate left out is later
\* than a row of the window; the window and time_series are in ascending time
\* order; and every time_range gives the same time_series.
C12_WindowLatestRows ==
    (AnsweredWithResult /\ Loaded /\ call.called) =>
        LET cand == Eval(CandidateRows)
            valid == {cand[i] : i \in {j \in 1..Len(cand) : cand[j].timestamp # NaT}}
            w == Eval(Window(cand))
            ws == {w[i] : i \in 1..Len(w)}
            body == response.body
        IN  /\ Len(w) <= 24
            /\ Len(w) = IF Cardinality(valid) < 24 THEN Cardinality(valid) ELSE 24
            /\ Cardinality(ws) = Len(w)
            /\ ws \subseteq valid
            /\ \A v \in valid \ ws : \A r \in ws : v.timestamp <= r.timestamp
            /\ \A i \in 1..(Len(w) - 1) : w[i].timestamp <= w[i + 1].timestamp
            /\ body.summary.data_points = Len(w)
            /\ body.time_series.x = [i \in 1..Len(w) |-> strftime(w[i].timestamp)]
            /\ Len(body.time_series.y) = Len(w)
            /\ \A i \in 1..Len(w) :
                  JsonNumber(body.time_series.y[i]) = JsonNumber(w[i].vals[call.pollutant])
            /\ \A tr \in TimeRanges :
                  AnswerForTimeRange(tr) =
                     [status |-> 200, time_series |-> body.time_series,
                      data_points |-> body.summary.data_points]

\* C12 witness: an answer whose candidates with a valid timestamp outnumber the
\* 24 rows of its window, the request naming a time_range
C12_Witness ==
    /\ AnsweredWithResult /\ Loaded /\ call.called
    /\ request.time_range # Absent
    /\ response.body.summary.data_points = 24
    /\ Cardinality({i \in 1..Len(CandidateRows) : CandidateRows[i].timestamp # NaT}) > 24

\* Dashboard 3 has answered GET route
Answered3(route) ==
    /\ dash = 3
    /\ pc = "responded"
    /\ request.route = route

\* C13 as stated: GET /api/aqi_trends?city=c answers with at most 7 records, and
\* each of them is one of the 7 most recent rows of c.
C13_TrendsLastSeven ==
    (Answered3("/api/aqi_trends") /\ response.json) =>
        LET city_df == CityRows(data_handler, request.city)
        IN  /\ Len(response.body) <= 7
            /\ \A k \in 1..Len(response.body) :
                  Cardinality({i \in 1..Len(city_df) :
                                  city_df[i].Time > response.body[k].Time}) < 7

\* |a - b| <= eps
Within(a, b, eps) == QLe(QSub(a, b), eps) /\ QLe(QSub(b, a), eps)

\* Dashboard 2 answered GET /api/data from a window with rows
AnsweredFromWindow ==
    /\ AnsweredWithResult /\ Loaded /\ call.called
    /\ dash = 2
    /\ response.body.summary.data_points > 0

\* C14 as stated: for a window with rows, forecast value i (1..h) of
\* model_output lies within 0.01 of the PM2.5 value of the most recent row of
\* the window plus i * trend_factor of the model (get_data leaves the model at
\* 'LSTM' and the horizon at 4).
C14_ForecastFromLastObserved ==
    AnsweredFromWindow =>
        LET w == Eval(Window(CandidateRows))
            last_observed == w[Len(w)].vals["PM2.5"]
            f == response.body.model_output.forecast.forecast
            h == Len(f) - historical_points
        IN  /\ h = 4
            /\ \A i \in 1..h :
                  Within(f[historical_points + i],
                         QAdd(last_observed, Q(i * trend_factor("LSTM"), 100)),
                         Q(1, 100))

\* C15: GET /api/forecast?city=c with a non-empty c answers 200 with seven
\* entries, days Mon..Sun in order; when c, matched without regard to case, has
\* rows and the AQI b of its last row is not negative, every entry's AQI lies
\* between 0.85 * b and 1.15 * b, up to the rounding to one decimal.
C15_ForecastSevenDays ==
    (Answered3("/api/forecast") /\ request.city \notin {Absent, ""}) =>
        LET city_df == CityRowsLower(data_handler, request.city)
            b == city_df[Len(city_df)].vals["AQI"]
            body == response.body
        IN  /\ response.status = 200
            /\ response.json
            /\ Len(body) = 7
            /\ [d \in 1..7 |-> body[d].day] = <<"Mon", "Tue", "Wed", "Thu", "Fri", "Sat", "Sun">>
            /\ (city_df # <<>> /\ QLe(I(0), b)) =>
                  \A d \in 1..7 :
                     /\ QLe(QSub(QMul(Q(85, 100), b), Q(5, 100)), body[d].AQI)
                     /\ QLe(body[d].AQI, QAdd(QMul(Q(115, 100), b), Q(5, 100)))

\* C15 witness: a forecast for a city written in another case than in the file,
\* whose last AQI is positive, with an entry below and an entry above it
C15_Witness ==
    /\ Answered3("/api/forecast")
    /\ request.city = "mumbai"
    /\ LET city_df == CityRowsLower(data_handler, request.city)
       IN  /\ city_df # <<>>
           /\ QLt(I(0), city_df[Len(city_df)].vals["AQI"])
           /\ \E d \in 1..7 : QLt(response.body[d].AQI, city_df[Len(city_df)].vals["AQI"])
           /\ \E d \in 1..7 : QLt(city_df[Len(city_df)].vals["AQI"], response.body[d].AQI)

\* a JSON answer whose body is an object with an 'error' string
IsErrorAnswer(r, status) ==
    /\ r.status = status
    /\ r.json
    /\ DOMAIN r.body = {"error"}

\* C16 as stated: GET /api/current_aqi answers 400 with an error when city is
\* missing or empty, 404 with an error when no row has that city, and 200 with
\* the keys city, AQI, category, forecast, pollutants, alerts when a row has it.
C16_CurrentAqiStatus ==
    Answered3("/api/current_aqi") =>
        IF request.city \in {Absent, ""} THEN IsErrorAnswer(response, 400)
        ELSE IF CityRows(data_handler, request.city) = <<>> THEN IsErrorAnswer(response, 404)
        ELSE /\ response.status = 200
             /\ response.json
             /\ DOMAIN response.body =
                   {"city", "AQI", "category", "forecast", "pollutants", "alerts"}

\* C17 as stated: each route of Dashboard 3 that reads 'city' answers a request
\* without that parameter with JSON, never with an unhandled exception.
C17_MissingCityJsonAnswer ==
    ( /\ dash = 3
      /\ pc = "responded"
      /\ request.route \in CityRoutes
      /\ request.city = Absent )
    => response.json

\* the four computed fields of a result of get_dashboard_data
ComputedFields(body) ==
    [time_series |-> body.time_series, summary |-> body.summary,
     distribution |-> body.distribution, correlations |-> body.correlations]

\* C18: once Dashboard 1 or 2 has loaded, air_aware_data and scaler stay what
\* the load made them, whatever requests have been served, and an answered
\* request has the time_series, summary, distribution and correlations that the
\* same request gets on the freshly loaded data.
C18_GlobalsUnchanged ==
    (dash \in {1, 2} /\ pc \in {"serving", "responded"}) =>
        LET fresh == Eval(load_and_preprocess_data(csv_file))
        IN  /\ air_aware_data = fresh.data
            /\ scaler = fresh.scaler
            /\ AnsweredWithResult =>
                  LET first == IF dash = 1 THEN get_data_1(fresh, request)
                               ELSE get_data_2(fresh, request, 0)
                  IN  /\ first.status = 200
                      /\ ComputedFields(first.body) = ComputedFields(response.body)

\* C18 witness: an answered request whose window left out rows of the global
\* dataset, which still holds them
C18_Witness ==
    /\ AnsweredWithResult /\ Loaded /\ call.called
    /\ response.body.summary.data_points < Len(air_aware_data.rows)
    /\ \E i \in 1..Len(air_aware_data.rows) : air_aware_data.rows[i].timestamp = NaT

\* Dashboard 2 answered GET /api/data with a result, which holds model_output
AnsweredWithModelOutput == AnsweredWithResult /\ dash = 2

\* C19 as stated: the five arrays of model_output.forecast have the same length.
C19_ForecastArraysSameLength ==
    AnsweredWithModelOutput =>
        LET fc == response.body.model_output.forecast
        IN  /\ Len(fc.actual) = Len(fc.labels)
            /\ Len(fc.forecast) = Len(fc.labels)
            /\ Len(fc.ci_lower) = Len(fc.labels)
            /\ Len(fc.ci_upper) = Len(fc.labels)

\* the forecast array and its interval: None goes with None, a value lies
\* between its bounds, and the bounds are HalfWidth(k) away from forecast step k
\* (counted from 0)
IntervalAround(fc, HalfWidth(_)) ==
    /\ Len(fc.ci_lower) = Len(fc.forecast)
    /\ Len(fc.ci_upper) = Len(fc.forecast)
    /\ \A idx \in 1..Len(fc.forecast) :
          IF fc.forecast[idx] = None
          THEN fc.ci_lower[idx] = None /\ fc.ci_upper[idx] = None
          ELSE /\ QLe(fc.ci_lower[idx], fc.forecast[idx])
               /\ QLe(fc.forecast[idx], fc.ci_upper[idx])
               /\ QSub(fc.ci_upper[idx], fc.forecast[idx]) = HalfWidth(idx - historical_points - 1)
               /\ QSub(fc.forecast[idx], fc.ci_lower[idx]) = HalfWidth(idx - historical_points - 1)

\* C20 as stated: wherever forecast holds a value, ci_lower <= forecast <=
\* ci_upper with half-width 0.02 * k at forecast step k; wherever forecast is
\* None, so are ci_lower and ci_upper.
C20_IntervalHalfWidth ==
    AnsweredWithModelOutput =>
        LET HalfWidth(k) == Q(2 * k, 100)
        IN  IntervalAround(response.body.model_output.forecast, HalfWidth)

\* C20 amended: the half-width is 0.02 * k for a window with rows; for a window
\* of no rows forecast, ci_lower and ci_upper are all 0 at every forecast step.
C20_IntervalHalfWidthByWindow ==
    AnsweredWithModelOutput =>
        LET HalfWidth(k) == IF response.body.summary.data_points > 0 THEN Q(2 * k, 100) ELSE I(0)
        IN  IntervalAround(response.body.model_output.forecast, HalfWidth)

\* C20 witness: an answer from a window with rows, its last forecast step with
\* an interval of half-width 0.06
C20_Witness ==
    /\ AnsweredWithModelOutput
    /\ response.body.summary.data_points > 0
    /\ LET fc == response.body.model_output.forecast
       IN  QSub(fc.ci_upper[Len(fc.ci_upper)], fc.forecast[Len(fc.forecast)]) = Q(6, 100)

\* C21: in a result of Dashboard 2 from a window with rows, row i of
\* accuracy_table is for pollutant i of PM2.5, PM10, O3, NO2 and names as
\* best_model one of ARIMA, Prophet, LSTM, XGBoost whose rmse for that pollutant
\* in the same response's performance data is the least of the four, with that
\* model's rmse and mae; from a window of no rows every row has best_model
\* 'N/A', rmse 0 and mae 0.
C21_AccuracyTableBestModel ==
    AnsweredWithModelOutput =>
        LET perf == response.body.model_output.performance
            table == response.body.model_output.accuracy_table
            models == {models_list[j] : j \in 1..Len(models_list)}
        IN  /\ Len(table) = Len(pollutants_for_eval)
            /\ \A i \in 1..Len(table) :
                  /\ table[i].pollutant = pollutants_for_eval[i]
                  /\ IF response.body.summary.data_points > 0
                     THEN /\ table[i].best_model \in models
                          /\ \A m \in models :
                                QLe(perf[table[i].best_model].rmse[i], perf[m].rmse[i])
                          /\ table[i].rmse = perf[table[i].best_model].rmse[i]
                          /\ table[i].mae = perf[table[i].best_model].mae[i]
                     ELSE /\ table[i].best_model = "N/A"
                          /\ table[i].rmse = I(0)
                          /\ table[i].mae = I(0)

\* C21 witness: an answer from a window with rows whose table names, for PM2.5,
\* a model other than the first of the list, one with a smaller rmse than ARIMA
C21_Witness ==
    /\ AnsweredWithModelOutput
    /\ response.body.summary.data_points > 0
    /\ LET perf == response.body.model_output.performance
           row == response.body.model_output.accuracy_table[1]
       IN  /\ row.best_model \in {"Prophet", "LSTM", "XGBoost"}
           /\ QLt(perf[row.best_model].rmse[1], perf["ARIMA"].rmse[1])

\* C22: in every result of get_dashboard_data of Dashboard 1 and 2,
\* summary.data_points is the number of points of time_series, the length of
\* time_series.x and of time_series.y, 0 for a window of no rows.
C22_DataPointsIsSeriesLength ==
    AnsweredWithResult =>
        /\ response.body.summary.data_points = Len(response.body.time_series.x)
        /\ response.body.summary.data_points = Len(response.body.time_series.y)

\* C22 witness: an answer of Dashboard 1 with a full window of 24 points, from
\* a dataset that holds more rows than the window shows
C22_Witness ==
    /\ AnsweredWithResult /\ Loaded
    /\ dash = 1
    /\ response.body.summary.data_points = WindowSize
    /\ Len(response.body.time_series.x) = WindowSize
    /\ Len(air_aware_data.rows) > WindowSize

\* C22 on a window of no rows: Dashboard 2 answers with 0 points, x and y empty
C22_EmptyWindowReached ==
    /\ AnsweredWithResult
    /\ response.body.summary.data_points = 0
    /\ response.body.time_series.x = <<>>
    /\ response.body.time_series.y = <<>>

\* Dashboard 1 asked for a window of no rows: every row of the loaded data is
\* without a timestamp
EmptyWindowAsked1 ==
    /\ dash = 1 /\ Loaded
    /\ pc = "responded"
    /\ request.route = "/api/data"
    /\ call.called
    /\ call.pollutant \in PollutantSet
    /\ air_aware_data.rows # <<>>
    /\ \A i \in 1..Len(air_aware_data.rows) : air_aware_data.rows[i].timestamp = NaT

\* Dashboard 1 returns no result for a window of no rows: the inverse transform
\* of the correlations refuses an array of no rows and the request ends with an
\* unhandled exception
C22_EmptyWindowRaises1 ==
    EmptyWindowAsked1 => (response.status = 500 /\ ~response.json /\ Raised(response.body))

\* the values the distribution of an answered request is binned from, in
\* original units: PM2.5 of the window of all rows for Dashboard 1, the selected
\* pollutant of the window of the rows of the city for Dashboard 2
BinnedValues ==
    LET w == IF dash = 1
             THEN Window(air_aware_data.rows)
             ELSE CityWindow(call.city).rows
        col == IF dash = 1 THEN "PM2.5" ELSE call.pollutant
    IN  Eval([i \in 1..Len(w) |-> inverse_transform(scaler, col, w[i].vals[col])])

\* the bin of a value by lower-inclusive edges 0, 20, 40, 60, 80, 100: 1 for
\* [0, 20), 2 for [20, 40), up to 6 for everything from 100 up
BinOf(v) == IF QLe(I(100), v) THEN 6 ELSE (v.n \div (20 * v.d)) + 1

\* C23: distribution.counts of a result of Dashboard 1 and 2 has six entries
\* for the labels 0-20, 20-40, 40-60, 60-80, 80-100, 100+; every unscaled value
\* of the binned series is counted in exactly one, lower-inclusive, bin (20
\* under '20-40', 100 under '100+'), and the counts sum to summary.data_points.
C23_LowerInclusiveBins ==
    (AnsweredWithResult /\ Loaded /\ call.called) =>
        LET v == BinnedValues
            counts == response.body.distribution.counts
        IN  /\ response.body.distribution.labels = <<"0-20", "20-40", "40-60", "60-80", "80-100", "100+">>
            /\ Len(counts) = 6
            /\ \A i \in 1..Len(v) : BinOf(v[i]) \in 1..6
            /\ \A b \in 1..6 : counts[b] = Cardinality({i \in 1..Len(v) : BinOf(v[i]) = b})
            /\ SumInts(counts) = response.body.summary.data_points

\* C23 witness: an answer whose binned series holds a value of exactly 20 and
\* one of exactly 100, with entries under '20-40' and under '100+'
C23_Witness ==
    /\ AnsweredWithResult /\ Loaded /\ call.called
    /\ LET v == BinnedValues
       IN  /\ \E i \in 1..Len(v) : v[i] = I(20)
           /\ \E i \in 1..Len(v) : v[i] = I(100)
    /\ response.body.distribution.counts[2] > 0
    /\ response.body.distribution.counts[6] > 0

\* the answer of Dashboard 1 to the answered request with its pollutant
\* parameter replaced by p, on the same dataset
AnswerForPollutant(p) ==
    get_data_1(Globals(air_aware_data, scaler, csv_file), [request EXCEPT !.pollutant = p])

\* C24: two results of Dashboard 1 on the same dataset, for requests that
\* differ only in the pollutant parameter, have the same distribution, the same
\* correlations and the same data_quality.
C24_PollutantIndependence ==
    (AnsweredWithResult /\ dash = 1) =>
        \A p \in Pollutants :
            LET other == Eval(AnswerForPollutant(p))
            IN  (other.json /\ other.status = 200) =>
                    /\ other.body.distribution = response.body.distribution
                    /\ other.body.correlations = response.body.correlations
                    /\ other.body.data_quality = response.body.data_quality

\* C24 witness: Dashboard 1 answered for AQI, every value of which is below
\* 100, with a distribution that has entries under '100+'; the request for CO
\* is answered with another time_series and another summary
C24_Witness ==
    /\ AnsweredWithResult /\ Loaded
    /\ dash = 1
    /\ request.pollutant = "AQI"
    /\ QLt(response.body.summary.max, I(100))
    /\ response.body.distribution.counts[6] > 0
    /\ LET other == Eval(AnswerForPollutant("CO"))
       IN  /\ other.json /\ other.status = 200
           /\ other.body.time_series # response.body.time_series
           /\ other.body.summary # response.body.summary

====
